---- MODULE Spec2Model ----
(***************************************************************************)
(* Model of api/__init__.py: module start-up (configuration load), the    *)
(* request validation of the Registration model, and the two handlers     *)
(* register_user and get_user_registrations, run by a single asyncio      *)
(* event loop.                                                            *)
(*                                                                         *)
(* The database driver (pymssql) and the database are the environment:    *)
(*  - connect, cursor, callproc, commit, execute, fetchall and the        *)
(*    connection's close each return or raise pymssql.Error, chosen with  *)
(*    \E; connect with a parameter missing always raises;                 *)
(*  - cursor.close() makes no call to the server and does not raise;      *)
(*  - conn.close() gives the connection up and drops what is uncommitted  *)
(*    also when it raises.                                                *)
(* An action of a handler that sits at a driver call models that call     *)
(* returning; until it fires the call is outstanding.                     *)
(*                                                                         *)
(* The handlers are coroutines without an await: from handler entry to    *)
(* the delivery of the response the task keeps the event loop thread.     *)
(***************************************************************************)
EXTENDS Integers, Sequences, FiniteSets, TLC

\* ---------------------------------------------------------------- bounds
NumReqs == 2        \* requests delivered to the process
MaxRows == 2        \* rows a SELECT returns at most

Reqs == 1..NumReqs

\* ------------------------------------------------- configuration, l.12-22
EnvVars == {"DB_SERVER", "DB_DATABASE", "DB_USER", "DB_PASSWORD"}

\* all([DB_SERVER, DB_DATABASE, DB_USER, DB_PASSWORD]), l.18
AllSet(cfg) == \A v \in EnvVars : v \in cfg

CriticalMsg == "Database environment variables are not set. Exiting."

\* ------------------------------------------------------------ inputs
\* JSON values of the two body fields.  t is the JSON type that arrived;
\* a choice carries n when it is a JSON integer and the characters s when
\* it is a JSON string.
AbsentEmail == [t |-> "absent", s |-> ""]
StrEmail == [t |-> "str", s |-> "a@b.com"]
ObjectEmail == [t |-> "object", s |-> ""]

AbsentChoice == [t |-> "absent", n |-> 0, s |-> <<>>]
IntChoice(n) == [t |-> "int", n |-> n, s |-> <<>>]
StrChoice(s) == [t |-> "str", n |-> 0, s |-> s]

\* bodies that carry a string email and an integer choice
WellTypedBodies ==
    { [email |-> StrEmail, choice |-> IntChoice(3)],
      [email |-> StrEmail, choice |-> IntChoice(-12)] }

\* bodies with a field missing or of another JSON type
IllTypedBodies ==
    { [email |-> AbsentEmail, choice |-> IntChoice(3)],
      [email |-> StrEmail, choice |-> AbsentChoice],
      [email |-> ObjectEmail, choice |-> IntChoice(3)],
      [email |-> StrEmail, choice |-> StrChoice(<<"x">>)],
      [email |-> StrEmail, choice |-> StrChoice(<<"7">>)] }

PathEmails == {"a@b.com", "nobody@x.com"}

NoBody == [email |-> AbsentEmail, choice |-> AbsentChoice]

RegisterRequests ==
    { [endpoint |-> "register", body |-> b, user_email |-> ""] :
        b \in WellTypedBodies \cup IllTypedBodies }

LookupRequests ==
    { [endpoint |-> "lookup", body |-> NoBody, user_email |-> u] : u \in PathEmails }

NoRequest == [endpoint |-> "none", body |-> NoBody, user_email |-> ""]

\* ------------------------------------------------- decimal text <-> int
DigitChars == <<"0", "1", "2", "3", "4", "5", "6", "7", "8", "9">>

IsDigit(c) == \E i \in 1..10 : DigitChars[i] = c

DigitVal(c) == (CHOOSE i \in 1..10 : DigitChars[i] = c) - 1

RECURSIVE DigitsToNat(_)
DigitsToNat(s) ==
    IF s = <<>> THEN 0
    ELSE 10 * DigitsToNat(SubSeq(s, 1, Len(s) - 1)) + DigitVal(s[Len(s)])

\* str -> int as the declared type `choice: int` converts it: an optional
\* sign followed by at least one digit.
IsIntText(s) ==
    LET d == IF s # <<>> /\ s[1] \in {"-", "+"} THEN Tail(s) ELSE s
    IN  d # <<>> /\ \A i \in 1..Len(d) : IsDigit(d[i])

IntOfText(s) ==
    IF s[1] = "-" THEN 0 - DigitsToNat(Tail(s))
    ELSE IF s[1] = "+" THEN DigitsToNat(Tail(s))
    ELSE DigitsToNat(s)

\* f"{registration.choice}": the decimal text of an int, l.60
RECURSIVE NatToDigits(_)
NatToDigits(n) ==
    IF n < 10 THEN <<DigitChars[n + 1]>>
    ELSE NatToDigits(n \div 10) \o <<DigitChars[(n % 10) + 1]>>

\* the decimal text with the sign left out
FormatIntNoSign(n) == IF n < 0 THEN NatToDigits(0 - n) ELSE NatToDigits(n)

FormatInt(n) == IF n < 0 THEN <<"-">> \o NatToDigits(0 - n) ELSE NatToDigits(n)

\* ------------------------------------- class Registration(BaseModel), l.43-45
\* email declared without a type: anything, a missing field too, passes
EmailAny(e) == e.t \in {"absent", "str", "object"}

\* email: str
EmailValid(e) == e.t = "str"

\* choice: int -- a JSON integer, or a JSON string holding an integer
ChoiceValid(c) == c.t = "int" \/ (c.t = "str" /\ IsIntText(c.s))

RegistrationValid(b) == EmailValid(b.email) /\ ChoiceValid(b.choice)

\* the validated model instance handed to the handler
Registration(b) ==
    [email |-> b.email.s,
     choice |-> IF b.choice.t = "int" THEN b.choice.n ELSE IntOfText(b.choice.s)]

NoRegistration == [email |-> "", choice |-> 0]

\* ------------------------------------------------------- fixed texts
SuccessStatus == "success"                                   \* l.60
MessagePrefix == "Registered for option "                    \* l.60
RegDbDetail == "Database operation failed."                  \* l.63
GetDbDetail == "Could not retrieve registration data."       \* l.86
UnexpectedDetail == "An unexpected server error occurred."   \* l.66, l.89
RegDbLog == "Database error during registration: "           \* l.62
GetDbLog == "Database error fetching registrations: "        \* l.85
UnexpectedLog == "An unexpected error occurred: "            \* l.65, l.88
ValidationDetail == "validation error"    \* the framework's own 422 body

\* text carried by the exception a driver call raises
ErrorText(call) ==
    CASE call = "connect"      -> "Login failed for user 'sa'"
      [] call = "cursor"       -> "Connection is closed"
      [] call = "callproc"     -> "Violation of PRIMARY KEY constraint"
      [] call = "commit"       -> "Transaction was deadlocked"
      [] call = "execute"      -> "Invalid object name 'EYNATFORM_ALL'"
      [] call = "fetchall"     -> "DBPROCESS is dead or not enabled"
      [] call = "conn.close"   -> "Write to the server failed"
      [] OTHER                 -> "NoneType is not iterable"

DriverCalls == {"connect", "cursor", "callproc", "commit", "execute", "fetchall",
                "conn.close"}

RawErrorTexts == {ErrorText(c) : c \in DriverCalls} \cup {ErrorText("config")}

NoExc == [kind |-> "none", text |-> ""]
DbError(call) == [kind |-> "db", text |-> ErrorText(call)]        \* pymssql.Error
OtherError(call) == [kind |-> "other", text |-> ErrorText(call)]  \* any other Exception

\* ------------------------------------------------------------ responses
NoResponse ==
    [status |-> 0, detail |-> "", result |-> "", message |-> <<>>,
     email |-> "", registrations |-> <<>>]

\* the framework's rejection of a body that does not validate
ValidationError == [NoResponse EXCEPT !.status = 422, !.detail = ValidationDetail]

\* HTTPException(status_code=500, detail=...)
HTTPException(code, detail) == [NoResponse EXCEPT !.status = code, !.detail = detail]

\* {"status": "success", "message": f"Registered for option {registration.choice}"}
RegisterSuccess(reg) ==
    [NoResponse EXCEPT !.status = 200, !.result = SuccessStatus,
                       !.message = <<MessagePrefix>> \o FormatInt(reg.choice)]

\* {"email": user_email, "registrations": registrations}
LookupSuccess(user_email, regs) ==
    [NoResponse EXCEPT !.status = 200, !.email = user_email, !.registrations = regs]

\* -------------------------------------------------- connections
\* A connection as the driver and the server hold it.  owner, usedBy and
\* fetched record who opened it, who called into it and what it returned.
NewConnection(r) ==
    [owner |-> r, state |-> "open", cursor |-> "none", pending |-> <<>>,
     usedBy |-> {r}, fetched |-> <<>>]

\* the slot of a connection that pymssql.connect has not made yet
NoConnection ==
    [owner |-> 0, state |-> "none", cursor |-> "none", pending |-> <<>>,
     usedBy |-> {}, fetched |-> <<>>]

\* --------------------------------------------------------------- state
VARIABLES
    env,            \* names of the environment variables that are set
    phase,          \* "import" while the module body runs, then "serving"
    DB_CONFIG,      \* the module globals DB_SERVER .. DB_PASSWORD that are truthy
    startupLog,     \* records the module body handed to logging
    log,            \* per request: records its handler handed to logging
    loop,           \* requests whose task holds the event loop thread (0 or 1)
    pc,             \* per request: where it is
    request,        \* per request: what arrived
    registration,   \* per request: the validated Registration
    conn,           \* per request: the handler's conn, <<>> or <<id>>
    exc,            \* per request: the exception in flight
    rows,           \* per request: the handler's rows
    registrations,  \* per request: the handler's registrations
    response,       \* per request: the response sent
    trace,          \* per request: the driver calls it made, in order
    raised,         \* per request: the driver calls that raised, in order
    conns,          \* the driver's connections: conns[r] is the one that the
                    \* connect call of request r made (each call makes a new one)
    committed       \* the database: committed procedure calls, in order

vars == <<env, phase, DB_CONFIG, startupLog, log, loop, pc, request, registration, conn, exc,
          rows, registrations, response, trace, raised, conns, committed>>

config == <<env, phase, DB_CONFIG, startupLog>>
locals == <<registration, conn, exc, rows, registrations>>
database == <<conns, committed>>

Init ==
    /\ env \in SUBSET EnvVars
    /\ phase = "import"
    /\ DB_CONFIG = {}
    /\ startupLog = {}
    /\ log = [r \in Reqs |-> {}]
    /\ loop = {}
    /\ pc = [r \in Reqs |-> "idle"]
    /\ request = [r \in Reqs |-> NoRequest]
    /\ registration = [r \in Reqs |-> NoRegistration]
    /\ conn = [r \in Reqs |-> <<>>]
    /\ exc = [r \in Reqs |-> NoExc]
    /\ rows = [r \in Reqs |-> <<>>]
    /\ registrations = [r \in Reqs |-> <<>>]
    /\ response = [r \in Reqs |-> NoResponse]
    /\ trace = [r \in Reqs |-> <<>>]
    /\ raised = [r \in Reqs |-> <<>>]
    /\ conns = [r \in Reqs |-> NoConnection]
    /\ committed = <<>>

\* ------------------------------------------------ module body, l.12-25
\* the module body with the exit its log message announces
StartupExit ==
    /\ phase = "import"
    /\ DB_CONFIG' = env
    /\ startupLog' = IF AllSet(env) THEN startupLog
                     ELSE startupLog \cup {[level |-> "critical", msg |-> CriticalMsg]}
    /\ phase' = IF AllSet(env) THEN "serving" ELSE "exited"
    /\ UNCHANGED <<env, log, loop, pc, request, response, trace, raised, locals, database>>

\* os.environ.get for the four names, the all([...]) check with its
\* logging.critical, and app = FastAPI(): nothing exits.
Startup ==
    /\ phase = "import"
    /\ DB_CONFIG' = env
    /\ startupLog' = IF AllSet(env) THEN startupLog
                     ELSE startupLog \cup {[level |-> "critical", msg |-> CriticalMsg]}
    /\ phase' = "serving"
    /\ UNCHANGED <<env, log, loop, pc, request, response, trace, raised, locals, database>>

\* ------------------------------------------------- request delivery
\* The host hands a request to main(); it waits for the event loop.
Arrive(r) ==
    /\ phase = "serving"
    /\ pc[r] = "idle"
    /\ \E q \in RegisterRequests \cup LookupRequests :
          request' = [request EXCEPT ![r] = q]
    /\ pc' = [pc EXCEPT ![r] = "queued"]
    /\ UNCHANGED <<config, log, loop, response, trace, raised, locals, database>>

\* The event loop runs main() and the framework for r: routing and, for
\* /register, validation of the body against Registration.  A body that
\* does not validate is answered by the framework in the same run of the
\* task; the handler is not called.
Validate(r) ==
    /\ pc[r] = "queued"
    /\ loop = {}
    /\ IF request[r].endpoint = "register" /\ ~RegistrationValid(request[r].body)
       THEN /\ response' = [response EXCEPT ![r] = ValidationError]
            /\ pc' = [pc EXCEPT ![r] = "done"]
            /\ loop' = {r}
            /\ UNCHANGED registration
       ELSE /\ registration' =
                 [registration EXCEPT ![r] =
                     IF request[r].endpoint = "register"
                     THEN Registration(request[r].body) ELSE NoRegistration]
            /\ pc' = [pc EXCEPT ![r] = "validated"]
            /\ UNCHANGED <<response, loop>>
    /\ UNCHANGED <<config, log, request, trace, raised, conn, exc, rows,
                   registrations, database>>

\* ------------------------------------------------------ the driver
\* what pymssql.connect(server=DB_SERVER, ...) can do: with a parameter
\* missing it raises (a driver error, or another exception on the None
\* argument); with all four set it connects or raises a driver error.
ConnectOutcomes ==
    IF AllSet(DB_CONFIG) THEN {"ok", "db"} ELSE {"db", "other"}

\* what any other driver call can do
CallOutcomes == {"ok", "db"}

Error(kind, call) == IF kind = "db" THEN DbError(call) ELSE OtherError(call)

\* one module-level connection, the first one made, used by every request
SharedConn(r) == 1

\* the connection the handler's conn (and the cursor made from it) names
ConnOf(r) == conn[r][1]

Called(r, call) == trace' = [trace EXCEPT ![r] = Append(@, call)]

Raise(r, kind, call, handlerPc) ==
    /\ exc' = [exc EXCEPT ![r] = Error(kind, call)]
    /\ raised' = [raised EXCEPT ![r] = Append(@, [call |-> call, kind |-> kind])]
    /\ pc' = [pc EXCEPT ![r] = handlerPc]

\* result sets the server can return for a SELECT RegNumber: any rows, in
\* any order, repeats included; as_dict=True makes each row a dictionary.
Row(n) == [RegNumber |-> n]

RegNumberValues == {1, 7}

RowSets ==
    UNION { [1..n -> {Row(v) : v \in RegNumberValues}] : n \in 0..MaxRows }

\* --- steps shared by the two handlers (the same statements in both)

\* handler entry: the coroutine starts on the event loop thread and calls
\* pymssql.connect, which blocks the thread; no await follows before the
\* handler returns or raises
Enter(r, endpoint) ==
    /\ pc[r] = "validated"
    /\ request[r].endpoint = endpoint
    /\ loop = {}
    /\ loop' = {r}
    /\ pc' = [pc EXCEPT ![r] = "connect"]
    /\ UNCHANGED <<config, log, request, response, trace, raised, locals, database>>

\* with pymssql.connect(...) as conn:
Connect(r, endpoint) ==
    /\ pc[r] = "connect"
    /\ request[r].endpoint = endpoint
    /\ Called(r, "connect")
    /\ \E out \in ConnectOutcomes :
          IF out = "ok"
          THEN /\ conns' = [conns EXCEPT ![r] = NewConnection(r)]
               /\ conn' = [conn EXCEPT ![r] = <<r>>]
               /\ pc' = [pc EXCEPT ![r] = "cursor"]
               /\ UNCHANGED <<exc, raised>>
          ELSE /\ Raise(r, out, "connect", "except")
               /\ UNCHANGED <<conns, conn>>
    /\ UNCHANGED <<config, log, loop, request, response, registration, rows,
                   registrations, committed>>

\* with conn.cursor() as cursor:
Cursor(r, endpoint, body) ==
    /\ pc[r] = "cursor"
    /\ request[r].endpoint = endpoint
    /\ Called(r, "cursor")
    /\ \E out \in CallOutcomes :
          IF out = "ok"
          THEN /\ conns' = [conns EXCEPT ![ConnOf(r)].cursor = "open",
                                         ![ConnOf(r)].usedBy = @ \cup {r}]
               /\ pc' = [pc EXCEPT ![r] = body]
               /\ UNCHANGED <<exc, raised>>
          ELSE /\ conns' = [conns EXCEPT ![ConnOf(r)].usedBy = @ \cup {r}]
               /\ Raise(r, out, "cursor", "conn_exit")
    /\ UNCHANGED <<config, log, loop, request, response, registration, conn, rows,
                   registrations, committed>>

\* leaving `with conn.cursor() as cursor`, normally or with an exception
\* in flight: cursor.close(), which only lets go of the connection and
\* makes no call to the server
CursorExit(r, endpoint) ==
    /\ pc[r] = "cursor_exit"
    /\ request[r].endpoint = endpoint
    /\ Called(r, "cursor.close")
    /\ conns' = [conns EXCEPT ![ConnOf(r)].cursor = "closed",
                              ![ConnOf(r)].usedBy = @ \cup {r}]
    /\ pc' = [pc EXCEPT ![r] = "conn_exit"]
    /\ UNCHANGED <<config, log, loop, request, response, registration, conn, exc,
                   raised, rows, registrations, committed>>

\* conn.close() written after the block instead of `with`: an exception
\* in flight skips it
ConnExitNoWith(r, endpoint) ==
    /\ pc[r] = "conn_exit"
    /\ request[r].endpoint = endpoint
    /\ IF exc[r] = NoExc
       THEN /\ Called(r, "conn.close")
            /\ conns' = [conns EXCEPT ![ConnOf(r)].state = "closed",
                                      ![ConnOf(r)].pending = <<>>,
                                      ![ConnOf(r)].usedBy = @ \cup {r}]
            /\ pc' = [pc EXCEPT ![r] = "return"]
       ELSE /\ pc' = [pc EXCEPT ![r] = "except"]
            /\ UNCHANGED <<trace, conns>>
    /\ UNCHANGED <<config, log, loop, request, response, registration, conn, exc,
                   raised, rows, registrations, committed>>

\* leaving `with pymssql.connect(...) as conn`, normally or with an
\* exception in flight: conn.close(), which drops what is uncommitted
ConnExit(r, endpoint) ==
    /\ pc[r] = "conn_exit"
    /\ request[r].endpoint = endpoint
    /\ Called(r, "conn.close")
    /\ conns' = [conns EXCEPT ![ConnOf(r)].state = "closed",
                              ![ConnOf(r)].pending = <<>>,
                              ![ConnOf(r)].usedBy = @ \cup {r}]
    /\ \E out \in CallOutcomes :
          IF out = "ok"
          THEN /\ pc' = [pc EXCEPT ![r] = IF exc[r] = NoExc THEN "return" ELSE "except"]
               /\ UNCHANGED <<exc, raised>>
          ELSE Raise(r, out, "conn.close", "except")
    /\ UNCHANGED <<config, log, loop, request, response, registration, conn, rows,
                   registrations, committed>>

\* the handler's frame ends and its locals are gone; the task goes on, in
\* the framework, with the response
Finish(r, resp) ==
    /\ response' = [response EXCEPT ![r] = resp]
    /\ pc' = [pc EXCEPT ![r] = "done"]
    /\ UNCHANGED loop
    /\ conn' = [conn EXCEPT ![r] = <<>>]
    /\ exc' = [exc EXCEPT ![r] = NoExc]
    /\ rows' = [rows EXCEPT ![r] = <<>>]
    /\ registrations' = [registrations EXCEPT ![r] = <<>>]
    /\ UNCHANGED <<config, request, registration, trace, raised, database>>

\* logging.error(f"...: {e}")
LogError(r, msg, text) ==
    log' = [log EXCEPT ![r] = @ \cup {[level |-> "error", msg |-> msg, text |-> text]}]

\* ------------------------------------------- register_user, l.48-66
sql_proc_name == "sp_RegisterUser_EynatForm"

\* the procedure call as the server receives it
ProcCall(r) ==
    [proc |-> sql_proc_name, email |-> registration[r].email,
     choice |-> registration[r].choice, by |-> r]

RegEnter(r) == Enter(r, "register")

RegConnect(r) == Connect(r, "register")

RegCursor(r) == Cursor(r, "register", "callproc")

\* cursor.callproc(sql_proc_name, (registration.email, registration.choice))
RegCallproc(r) ==
    /\ pc[r] = "callproc"
    /\ Called(r, "callproc")
    /\ \E out \in CallOutcomes :
          IF out = "ok"
          THEN /\ conns' = [conns EXCEPT ![ConnOf(r)].pending = Append(@, ProcCall(r)),
                                         ![ConnOf(r)].usedBy = @ \cup {r}]
               /\ pc' = [pc EXCEPT ![r] = "commit"]
               /\ UNCHANGED <<exc, raised>>
          ELSE /\ conns' = [conns EXCEPT ![ConnOf(r)].usedBy = @ \cup {r}]
               /\ Raise(r, out, "callproc", "cursor_exit")
    /\ UNCHANGED <<config, log, loop, request, response, registration, conn, rows,
                   registrations, committed>>

\* conn.commit()
RegCommit(r) ==
    /\ pc[r] = "commit"
    /\ Called(r, "commit")
    /\ \E out \in CallOutcomes :
          IF out = "ok"
          THEN /\ committed' = committed \o conns[ConnOf(r)].pending
               /\ conns' = [conns EXCEPT ![ConnOf(r)].pending = <<>>,
                                         ![ConnOf(r)].usedBy = @ \cup {r}]
               /\ pc' = [pc EXCEPT ![r] = "cursor_exit"]
               /\ UNCHANGED <<exc, raised>>
          ELSE /\ conns' = [conns EXCEPT ![ConnOf(r)].usedBy = @ \cup {r}]
               /\ Raise(r, out, "commit", "cursor_exit")
               /\ UNCHANGED committed
    /\ UNCHANGED <<config, log, loop, request, response, registration, conn, rows,
                   registrations>>

RegCursorExit(r) == CursorExit(r, "register")

RegConnExit(r) == ConnExit(r, "register")

\* return {"status": "success", "message": f"Registered for option {...}"}
RegReturn(r) ==
    /\ pc[r] = "return"
    /\ request[r].endpoint = "register"
    /\ Finish(r, RegisterSuccess(registration[r]))
    /\ UNCHANGED log

\* the handler passing str(db_err) on as the detail
RegExceptDbLeaky(r) ==
    /\ pc[r] = "except"
    /\ request[r].endpoint = "register"
    /\ exc[r].kind = "db"
    /\ LogError(r, RegDbLog, exc[r].text)
    /\ Finish(r, HTTPException(500, exc[r].text))

\* except pymssql.Error as db_err
RegExceptDb(r) ==
    /\ pc[r] = "except"
    /\ request[r].endpoint = "register"
    /\ exc[r].kind = "db"
    /\ LogError(r, RegDbLog, exc[r].text)
    /\ Finish(r, HTTPException(500, RegDbDetail))

\* except Exception as e
RegExceptOther(r) ==
    /\ pc[r] = "except"
    /\ request[r].endpoint = "register"
    /\ exc[r].kind = "other"
    /\ LogError(r, UnexpectedLog, exc[r].text)
    /\ Finish(r, HTTPException(500, UnexpectedDetail))

\* ---------------------------------- get_user_registrations, l.69-89
GetEnter(r) == Enter(r, "lookup")

GetConnect(r) == Connect(r, "lookup")

GetCursor(r) == Cursor(r, "lookup", "execute")

\* cursor.execute(sql_query, (user_email,))
GetExecute(r) ==
    /\ pc[r] = "execute"
    /\ Called(r, "execute")
    /\ conns' = [conns EXCEPT ![ConnOf(r)].usedBy = @ \cup {r}]
    /\ \E out \in CallOutcomes :
          IF out = "ok"
          THEN /\ pc' = [pc EXCEPT ![r] = "fetchall"]
               /\ UNCHANGED <<exc, raised>>
          ELSE Raise(r, out, "execute", "cursor_exit")
    /\ UNCHANGED <<config, log, loop, request, response, registration, conn, rows,
                   registrations, committed>>

\* rows = cursor.fetchall()
GetFetchall(r) ==
    /\ pc[r] = "fetchall"
    /\ Called(r, "fetchall")
    /\ \/ \E rs \in RowSets :
             /\ rows' = [rows EXCEPT ![r] = rs]
             /\ conns' = [conns EXCEPT ![ConnOf(r)].fetched = rs,
                                       ![ConnOf(r)].usedBy = @ \cup {r}]
             /\ pc' = [pc EXCEPT ![r] = "collect"]
             /\ UNCHANGED <<exc, raised>>
       \/ /\ conns' = [conns EXCEPT ![ConnOf(r)].usedBy = @ \cup {r}]
          /\ Raise(r, "db", "fetchall", "cursor_exit")
          /\ UNCHANGED rows
    /\ UNCHANGED <<config, log, loop, request, response, registration, conn,
                   registrations, committed>>

\* the comprehension written so that a RegNumber is listed once
RECURSIVE RegNumbersDistinct(_)
RegNumbersDistinct(rs) ==
    IF rs = <<>> THEN <<>>
    ELSE LET front == RegNumbersDistinct(SubSeq(rs, 1, Len(rs) - 1))
             last == rs[Len(rs)].RegNumber
         IN  IF \E i \in 1..Len(front) : front[i] = last THEN front
             ELSE Append(front, last)

\* [row['RegNumber'] for row in rows]
RegNumbers(rs) == [i \in 1..Len(rs) |-> rs[i].RegNumber]

\* registrations = [row['RegNumber'] for row in rows]
GetCollect(r) ==
    /\ pc[r] = "collect"
    /\ registrations' = [registrations EXCEPT ![r] = RegNumbers(rows[r])]
    /\ pc' = [pc EXCEPT ![r] = "cursor_exit"]
    /\ UNCHANGED <<config, log, loop, request, response, registration, conn, exc, rows,
                   trace, raised, database>>

GetCursorExit(r) == CursorExit(r, "lookup")

GetConnExit(r) == ConnExit(r, "lookup")

\* return {"email": user_email, "registrations": registrations}
GetReturn(r) ==
    /\ pc[r] = "return"
    /\ request[r].endpoint = "lookup"
    /\ Finish(r, LookupSuccess(request[r].user_email, registrations[r]))
    /\ UNCHANGED log

\* the lookup handler raising the detail of register_user
GetExceptDbAsRegister(r) ==
    /\ pc[r] = "except"
    /\ request[r].endpoint = "lookup"
    /\ exc[r].kind = "db"
    /\ LogError(r, GetDbLog, exc[r].text)
    /\ Finish(r, HTTPException(500, RegDbDetail))

\* except pymssql.Error as db_err
GetExceptDb(r) ==
    /\ pc[r] = "except"
    /\ request[r].endpoint = "lookup"
    /\ exc[r].kind = "db"
    /\ LogError(r, GetDbLog, exc[r].text)
    /\ Finish(r, HTTPException(500, GetDbDetail))

\* except Exception as e
GetExceptOther(r) ==
    /\ pc[r] = "except"
    /\ request[r].endpoint = "lookup"
    /\ exc[r].kind = "other"
    /\ LogError(r, UnexpectedLog, exc[r].text)
    /\ Finish(r, HTTPException(500, UnexpectedDetail))

\* ------------------------------------------------- response delivery
\* main() returns the platform response and the task ends: the process
\* keeps nothing of the request; the database keeps what was committed
\* and the driver what it did not release.
Deliver(r) ==
    /\ pc[r] = "done"
    /\ pc' = [pc EXCEPT ![r] = "gone"]
    /\ loop' = loop \ {r}
    /\ request' = [request EXCEPT ![r] = NoRequest]
    /\ registration' = [registration EXCEPT ![r] = NoRegistration]
    /\ response' = [response EXCEPT ![r] = NoResponse]
    /\ trace' = [trace EXCEPT ![r] = <<>>]
    /\ raised' = [raised EXCEPT ![r] = <<>>]
    /\ log' = [log EXCEPT ![r] = {}]
    /\ conns' = [conns EXCEPT ![r].usedBy = {}, ![r].fetched = <<>>]
    /\ UNCHANGED <<config, conn, exc, rows, registrations, committed>>

\* ---------------------------------------------------- specification
Next ==
    \/ Startup
    \/ \E r \in Reqs : Arrive(r)
    \/ \E r \in Reqs : Validate(r)
    \/ \E r \in Reqs : RegEnter(r)
    \/ \E r \in Reqs : RegConnect(r)
    \/ \E r \in Reqs : RegCursor(r)
    \/ \E r \in Reqs : RegCallproc(r)
    \/ \E r \in Reqs : RegCommit(r)
    \/ \E r \in Reqs : RegCursorExit(r)
    \/ \E r \in Reqs : RegConnExit(r)
    \/ \E r \in Reqs : RegReturn(r)
    \/ \E r \in Reqs : RegExceptDb(r)
    \/ \E r \in Reqs : RegExceptOther(r)
    \/ \E r \in Reqs : GetEnter(r)
    \/ \E r \in Reqs : GetConnect(r)
    \/ \E r \in Reqs : GetCursor(r)
    \/ \E r \in Reqs : GetExecute(r)
    \/ \E r \in Reqs : GetFetchall(r)
    \/ \E r \in Reqs : GetCollect(r)
    \/ \E r \in Reqs : GetCursorExit(r)
    \/ \E r \in Reqs : GetConnExit(r)
    \/ \E r \in Reqs : GetReturn(r)
    \/ \E r \in Reqs : GetExceptDb(r)
    \/ \E r \in Reqs : GetExceptOther(r)
    \/ \E r \in Reqs : Deliver(r)

Spec == Init /\ [][Next]_vars

\* ============================================================ properties
Done(r) == pc[r] = "done"
IsRegister(r) == request[r].endpoint = "register"
IsLookup(r) == request[r].endpoint = "lookup"
HandlerRan(r) == trace[r] # <<>>
Count(seq, x) == Cardinality({i \in 1..Len(seq) : seq[i] = x})
CommittedBy(r) == Cardinality({i \in 1..Len(committed) : committed[i].by = r})
RaisedCalls(r) == {raised[r][i].call : i \in 1..Len(raised[r])}
RaisedDb(r) == \E i \in 1..Len(raised[r]) : raised[r][i].kind = "db"
LastRaised(r) == raised[r][Len(raised[r])]
GenericDetails == {RegDbDetail, GetDbDetail, UnexpectedDetail}
DbDetail(r) == IF IsRegister(r) THEN RegDbDetail ELSE GetDbDetail
\* the handler sits at a call into the driver that has not returned
InDbCall(r) ==
    pc[r] \in {"connect", "cursor", "callproc", "commit", "execute", "fetchall", "conn_exit"}

NoDatabaseCall(r) ==
    /\ trace[r] = <<>>
    /\ conns[r].state = "none"
    /\ CommittedBy(r) = 0

Unconvertible(b) ==
    \/ b.email.t = "absent"
    \/ b.choice.t = "absent"
    \/ b.email.t # "str"
    \/ (b.choice.t # "int" /\ ~(b.choice.t = "str" /\ IsIntText(b.choice.s)))

C3_LookupReturnsRowsInOrder ==
    \A r \in Reqs :
        (Done(r) /\ IsLookup(r) /\ raised[r] = <<>>)
        => /\ response[r].status = 200
           /\ response[r].detail = ""
           /\ response[r].email = request[r].user_email
           /\ Len(response[r].registrations) = Len(conns[r].fetched)
           /\ \A i \in 1..Len(conns[r].fetched) :
                 response[r].registrations[i] = conns[r].fetched[i].RegNumber
           /\ (conns[r].fetched = <<>> => response[r].registrations = <<>>)

C3_Witness ==
    \E r \in Reqs :
        /\ Done(r) /\ IsLookup(r) /\ raised[r] = <<>>
        /\ conns[r].fetched = <<Row(7), Row(7)>>
        /\ response[r].registrations = <<7, 7>>
        /\ response[r].email = "a@b.com"

\* no field of the response is the text of a driver error
HidesRawText(resp) ==
    /\ resp.detail \notin RawErrorTexts
    /\ resp.result \notin RawErrorTexts
    /\ resp.email \notin RawErrorTexts
    /\ \A i \in 1..Len(resp.message) : resp.message[i] \notin RawErrorTexts

\* C4: on either endpoint, when connect, cursor, callproc / execute,
\* fetchall or commit raises a driver error, the response is a 500 whose
\* detail is the fixed message of that endpoint; it carries no driver error
\* text and is not a success payload.
C4_DbFailureIsGeneric500 ==
    \A r \in Reqs :
        (Done(r) /\ RaisedDb(r)
            /\ RaisedCalls(r) \cap {"connect", "cursor", "callproc", "commit",
                                    "execute", "fetchall"} # {})
        => /\ response[r].status = 500
           /\ response[r].detail = DbDetail(r)
           /\ response[r].result # "success"
           /\ response[r].message = <<>>
           /\ response[r].registrations = <<>>
           /\ HidesRawText(response[r])

C4_Witness ==
    \E r \in Reqs :
        /\ Done(r) /\ IsRegister(r)
        /\ raised[r] = <<[call |-> "commit", kind |-> "db"]>>
        /\ response[r].status = 500
        /\ response[r].detail = "Database operation failed."

\* C5 as stated: a failed GET /registrations/{user_email} is answered with
\* the two details of POST /register: "Database operation failed." after a
\* driver error, "An unexpected server error occurred." after any other.
C5_LookupUsesRegisterDetails ==
    \A r \in Reqs :
        (Done(r) /\ IsLookup(r) /\ raised[r] # <<>>)
        => /\ response[r].status = 500
           /\ (LastRaised(r).kind = "db"
                 => response[r].detail = "Database operation failed.")
           /\ (LastRaised(r).kind = "other"
                 => response[r].detail = "An unexpected server error occurred.")

\* C5 amended: a failed GET /registrations/{user_email} is answered 500
\* with "Could not retrieve registration data." after a driver error and
\* "An unexpected server error occurred." after any other; only the second
\* detail is shared with POST /register, and no other detail is returned.
C5_LookupErrorDetails ==
    \A r \in Reqs :
        (Done(r) /\ IsLookup(r) /\ raised[r] # <<>>)
        => /\ response[r].status = 500
           /\ (LastRaised(r).kind = "db"
                 => response[r].detail = "Could not retrieve registration data.")
           /\ (LastRaised(r).kind = "other"
                 => response[r].detail = "An unexpected server error occurred.")
           /\ response[r].detail # "Database operation failed."

C5_Witness ==
    \E r \in Reqs :
        /\ Done(r) /\ IsLookup(r)
        /\ raised[r] = <<[call |-> "execute", kind |-> "db"]>>
        /\ response[r].detail = "Could not retrieve registration data."

\* C6: once a handler has left its `with` blocks, on the way to returning
\* or to an except clause, and from then on, the connection and cursor the
\* request acquired are released, whatever the outcome.
C6_ReleasedBeforeResponse ==
    \A r \in Reqs :
        pc[r] \in {"return", "except", "done", "gone"}
        => /\ conns[r].state # "open"
           /\ conns[r].cursor # "open"
           /\ conns[r].pending = <<>>

C6_Witness ==
    \E r \in Reqs :
        /\ Done(r) /\ IsRegister(r)
        /\ raised[r] = <<[call |-> "callproc", kind |-> "db"]>>
        /\ response[r].status = 500
        /\ conns[r].state = "closed"
        /\ conns[r].cursor = "closed"

\* C7: a POST /register answered with the success payload has made one
\* procedure call followed by one commit and has one committed write; one
\* answered 500 has left nothing committed, also when the failure came
\* while the cursor or the connection was released.
C7_CommittedIffSuccess ==
    \A r \in Reqs :
        (Done(r) /\ IsRegister(r))
        => /\ (response[r].status = 200
                 => /\ CommittedBy(r) = 1
                    /\ Count(trace[r], "callproc") = 1
                    /\ Count(trace[r], "commit") = 1)
           /\ (response[r].status = 500 => CommittedBy(r) = 0)

C9_OthersProgressDuringDbCall ==
    \A r1 \in Reqs : \A r2 \in Reqs \ {r1} :
        (InDbCall(r1) /\ pc[r2] = "queued") => ENABLED Validate(r2)

\* what request r is answered, from its own input and the outcomes of its
\* own driver calls alone
OwnResponse(r) ==
    IF raised[r] # <<>>
    THEN HTTPException(500, IF LastRaised(r).kind = "db" THEN DbDetail(r)
                            ELSE UnexpectedDetail)
    ELSE IF IsLookup(r) THEN LookupSuccess(request[r].user_email,
                                           RegNumbers(conns[r].fetched))
    ELSE IF HandlerRan(r) THEN RegisterSuccess(Registration(request[r].body))
    ELSE ValidationError

\* C10: requests are independent: a connection is used by the request
\* that opened it and by no other, a request that is not in its handler
\* has no handler locals bound, the module globals stay as loaded, and each
\* response is the one its own input and its own driver outcomes give.
C10_RequestsIndependent ==
    /\ \A r \in Reqs : conns[r].usedBy \subseteq {r}
    /\ \A r \in Reqs : conns[r].state # "none" => conns[r].owner = r
    /\ \A r \in Reqs :
          pc[r] \in {"idle", "queued", "validated", "done", "gone"}
          => conn[r] = <<>> /\ exc[r] = NoExc /\ rows[r] = <<>> /\ registrations[r] = <<>>
    /\ phase = "serving" => DB_CONFIG = env
    /\ \A r \in Reqs : Done(r) => response[r] = OwnResponse(r)

C10_Witness ==
    \E r1 \in Reqs : \E r2 \in Reqs \ {r1} :
        /\ pc[r1] = "gone"
        /\ conns[r1].state = "closed" /\ conns[r1].cursor = "none"
        /\ Done(r2) /\ IsRegister(r2)
        /\ response[r2].status = 200
        /\ conns[r2].usedBy = {r2}
        /\ CommittedBy(r2) = 1
====
